---- MODULE Spec2Model ----
(***************************************************************************)
(* Model of the media store (upload.controller.ts over a GridFS bucket),   *)
(* of the catalog queries (listing, detail, search and statistics of       *)
(* housing.controller.ts and establishment.controller.ts), of the bulk     *)
(* import of establishments and of the connection to the database          *)
(* (config/database.ts).                                                   *)
(*                                                                         *)
(* The GridFS bucket "housing_images" is two collections: `files`, one     *)
(* document per stored blob, and `chunks`, one document per chunk          *)
(* {files_id, n, data}.  An upload stream inserts the chunk documents      *)
(* while it is written and inserts the files document last, when it ends;  *)
(* bucket.delete removes the files document and then the chunk documents.  *)
(* Sizes are scaled: a byte is one element of a sequence, ChunkSize stands *)
(* for the bucket's chunkSizeBytes and FileSizeLimit for multer's          *)
(* limits.fileSize.                                                        *)
(***************************************************************************)
EXTENDS Integers, Sequences, FiniteSets, TLC

VARIABLES files, chunks, nextId, uploads, deletes, gets,
          housing, establishments, listing, imports,
          connectionAttempts, connecting, retryTimers, reconnectTimers,
          readyState, everConnected, production, exited, outages

blobVars == <<files, chunks, nextId, uploads, deletes, gets>>
catalogVars == <<housing, establishments, listing, imports>>
dbVars == <<connectionAttempts, connecting, retryTimers, reconnectTimers,
           readyState, everConnected, production, exited, outages>>
vars == <<blobVars, catalogVars, dbVars>>

---------------------------------------------------------------------------
(* Bounds *)

\* Requests (uploads, deletes and retrievals together) in one behaviour.
MaxReqs == 2

\* Bytes per chunk document (GridFS chunkSizeBytes, scaled down).
ChunkSize == 2

\* multer limits.fileSize, in chunks (10 MiB is about 41 chunks of 255 KiB).
LimitChunks == 2

\* 'disconnected' events of the database connection in one behaviour.
MaxOutages == 2

---------------------------------------------------------------------------
(* Strings are sequences of one-character strings, so that a regular       *)
(* expression test is a search and not an equality.                        *)

Contains(s, pat) ==
    \E i \in 1..(Len(s) - Len(pat) + 1) : SubSeq(s, i, i + Len(pat) - 1) = pat

Min(a, b) == IF a <= b THEN a ELSE b

ImageJpeg == <<"i","m","a","g","e","/","j","p","e","g">>
ImagePng  == <<"i","m","a","g","e","/","p","n","g">>
VideoJpeg == <<"v","i","d","e","o","/","j","p","e","g">>
AppPdf    == <<"a","p","p","l","i","c","a","t","i","o","n","/","p","d","f">>

\* The alternatives of the pattern /jpeg|jpg|png|webp|gif/.
allowedTypes ==
    { <<"j","p","e","g">>, <<"j","p","g">>, <<"p","n","g">>,
      <<"w","e","b","p">>, <<"g","i","f">> }

\* The image subtypes the pattern names, as full content types.
ImageTypes ==
    { <<"i","m","a","g","e","/">> \o t : t \in allowedTypes }

\* fileFilter: allowedTypes.test(file.mimetype), an unanchored search.
fileFilter(mimetype) == \E t \in allowedTypes : Contains(mimetype, t)

FileSizeLimit == LimitChunks * ChunkSize

\* multer's size limit: a file of more than limits.fileSize bytes is refused.
WithinSizeLimit(file) == Len(file.buffer) <= FileSizeLimit

\* multer accepts the request when every file passes the filter and the limit.
MulterAccepts(fs) ==
    \A j \in 1..Len(fs) : fileFilter(fs[j].mimetype) /\ WithinSizeLimit(fs[j])

\* A buffer of `len` bytes whose content depends on the file (tag) and on
\* the position, so that two chunks of two files are never confused.
Buffer(tag, len) == [p \in 1..len |-> (tag + p) % 3]

File(name, mimetype, len) ==
    [originalname |-> name, mimetype |-> mimetype, buffer |-> Buffer(Len(mimetype), len)]

Small == File("small", ImagePng, 1)
Photo == File("photo", ImageJpeg, ChunkSize + 1)
Big   == File("big", ImageJpeg, FileSizeLimit + 1)
Clip  == File("clip", VideoJpeg, 1)
Doc   == File("doc", AppPdf, 1)

\* The files a client may send.
SampleFiles == {Small, Photo, Big, Clip, Doc}

\* The file lists of a request: upload.single('image') carries no file or
\* one, upload.array('images') none or several.
FileLists(kind) ==
    IF kind = "single"
    THEN {<<>>} \cup { <<f>> : f \in SampleFiles }
    ELSE {<<>>, <<Photo, Small>>, <<Small, Doc>>}

---------------------------------------------------------------------------
(* GridFS bucket *)

NumChunks(len) == (len + ChunkSize - 1) \div ChunkSize

\* The data of chunk n of a buffer (n counts from 0).
ChunkData(buffer, n) ==
    SubSeq(buffer, n * ChunkSize + 1, Min((n + 1) * ChunkSize, Len(buffer)))

FileDoc(id) == CHOOSE f \in files : f.id = id

FileExists(id) == \E f \in files : f.id = id

ChunksOf(id) == { c \in chunks : c.files_id = id }

HasChunk(id, n) == \E c \in chunks : c.files_id = id /\ c.n = n

ChunkAt(id, n) == CHOOSE c \in chunks : c.files_id = id /\ c.n = n

\* Identifiers: 1.. are the ObjectIds the bucket generated, 0 is a
\* well-formed ObjectId the bucket never generated, and a negative number
\* is a string that is no ObjectId (mongoose.Types.ObjectId.isValid).
RequestIds == (-1)..(nextId - 1)

isValid(id) == id >= 0

\* The requests that have arrived, of every kind.
ReqCount == Len(uploads) + Len(deletes) + Len(gets) + Len(imports)

---------------------------------------------------------------------------
(* State *)

\* The chunk documents of a stored buffer.
StoredChunks(id, buffer) ==
    { [files_id |-> id, n |-> n, data |-> ChunkData(buffer, n)] :
        n \in 0..(NumChunks(Len(buffer)) - 1) }

\* The database is connected and stays so: connectDB succeeded at its first
\* attempt and no timer is armed.
DbConnected ==
    /\ connectionAttempts = 0 /\ connecting = 0
    /\ retryTimers = 0 /\ reconnectTimers = 0
    /\ readyState = "connected" /\ everConnected = TRUE
    /\ production = TRUE /\ exited = FALSE /\ outages = 0

\* No request has arrived; the bucket is empty, or holds one blob stored by
\* an earlier run.
BlobInit ==
    /\ \/ files = {} /\ chunks = {} /\ nextId = 1
       \/ /\ files = {[id |-> 1, length |-> Len(Photo.buffer), contentType |-> Photo.mimetype]}
          /\ chunks = StoredChunks(1, Photo.buffer)
          /\ nextId = 2
    /\ uploads = <<>>
    /\ deletes = <<>>
    /\ gets = <<>>

\* No listing was asked for.
NoListing == [op |-> "none"]

Init ==
    /\ BlobInit
    /\ DbConnected
    /\ housing = {}
    /\ establishments = {}
    /\ listing = NoListing
    /\ imports = <<>>

\* The UploadedFile record of a stored file.
UploadedFile(id, file) ==
    [fileId |-> id, originalName |-> file.originalname,
     size |-> Len(file.buffer), mimetype |-> file.mimetype]

---------------------------------------------------------------------------
(* uploadImage / uploadMultipleImages *)

\* The status a request is answered with before any stream is opened, or 0
\* when the handler goes on to store the files: multer refuses the request
\* (the error reaches the framework's error handler), or no file was sent.
UploadEarlyStatus(fs) ==
    IF ~MulterAccepts(fs) THEN 500
    ELSE IF Len(fs) = 0 THEN 400
    ELSE 0

\* A request arrives: multer runs, then the handler's guard, then
\* gfs.openUploadStream for the first file, whose stream gets a fresh
\* ObjectId.
UploadRequest(kind, fs) ==
    LET st == UploadEarlyStatus(fs) IN
    /\ ReqCount < MaxReqs
    /\ uploads' = Append(uploads,
          [kind |-> kind, files |-> fs, i |-> 1,
           id |-> IF st = 0 THEN nextId ELSE 0,
           pc |-> IF st = 0 THEN "writing" ELSE "done",
           status |-> st,
           uploadedImages |-> <<>>, images |-> <<>>, failedAt |-> 0])
    /\ nextId' = IF st = 0 THEN nextId + 1 ELSE nextId
    /\ UNCHANGED <<files, chunks, deletes, gets, catalogVars, dbVars>>

\* A stream that takes its last chunk for stored before it is.
NextChunk_Short(u) ==
    LET k == Cardinality(ChunksOf(u.id)) IN
    IF k < NumChunks(Len(u.files[u.i].buffer)) - 1 THEN k ELSE -1

\* The number of the next chunk document of the current file, or -1 when
\* all of them are stored: the stream inserts them in ascending order.
NextChunk(u) ==
    LET k == Cardinality(ChunksOf(u.id)) IN
    IF k < NumChunks(Len(u.files[u.i].buffer)) THEN k ELSE -1

\* writeStream.write(file.buffer): one chunk document is inserted.
UploadWriteChunk(r) ==
    LET u == uploads[r] IN
    /\ u.pc = "writing"
    /\ NextChunk(u) >= 0
    /\ chunks' = chunks \cup
          {[files_id |-> u.id, n |-> NextChunk(u),
            data |-> ChunkData(u.files[u.i].buffer, NextChunk(u))]}
    /\ UNCHANGED <<files, nextId, uploads, deletes, gets, catalogVars, dbVars>>

\* The files document the stream inserts when it ends.
NewFileDoc(u) ==
    [id |-> u.id, length |-> Len(u.files[u.i].buffer),
     contentType |-> u.files[u.i].mimetype]

\* writeStream.end() once every chunk is stored: the files document is
\* inserted and 'finish' fires.  uploadImage answers; uploadMultipleImages
\* pushes the record and opens the stream of the next file, or answers
\* after the last one.
UploadFinish(r) ==
    LET u == uploads[r]
        rec == UploadedFile(u.id, u.files[u.i])
        last == u.i = Len(u.files)
    IN
    /\ u.pc = "writing"
    /\ NextChunk(u) < 0
    /\ files' = files \cup {NewFileDoc(u)}
    /\ uploads' = [uploads EXCEPT
          ![r].uploadedImages = Append(@, rec),
          ![r].i = IF last THEN @ ELSE @ + 1,
          ![r].id = IF last THEN @ ELSE nextId,
          ![r].pc = IF last THEN "done" ELSE "writing",
          ![r].status = IF last THEN 200 ELSE @,
          ![r].images = IF last THEN Append(u.uploadedImages, rec) ELSE @]
    /\ nextId' = IF last THEN nextId ELSE nextId + 1
    /\ UNCHANGED <<chunks, deletes, gets, catalogVars, dbVars>>

\* The chunk collection after the stream's 'error': the handlers answer
\* and reject, nothing is removed.
ChunksAfterError(u) == chunks

\* A storage write fails (a chunk insert or the insert of the files
\* document): 'error' fires.  uploadImage answers 500; in
\* uploadMultipleImages the promise rejects, the loop is left through the
\* catch block and the request is answered 500 without any file record.
UploadError(r) ==
    LET u == uploads[r] IN
    /\ u.pc = "writing"
    /\ chunks' = ChunksAfterError(u)
    /\ uploads' = [uploads EXCEPT ![r].pc = "done", ![r].status = 500,
                                   ![r].failedAt = u.i]
    /\ UNCHANGED <<files, nextId, deletes, gets, catalogVars, dbVars>>

---------------------------------------------------------------------------
(* getImage / getImageInfo *)

\* The status a handler answers with before it touches the bucket: 400 for
\* an id that is no ObjectId, 404 when filesCollection.findOne({_id}) finds
\* no document, 0 when the document was found.
LookupStatus(id) ==
    IF ~isValid(id) THEN 400
    ELSE IF ~FileExists(id) THEN 404
    ELSE 0

\* The lookup of getImage.
ImageLookup(id) == LookupStatus(id)

\* The lookup of getImageInfo.
InfoLookup(id) == LookupStatus(id)

\* getImageInfo: the metadata of the files document.
GetImageInfo(id) ==
    LET st == InfoLookup(id) IN
    /\ ReqCount < MaxReqs
    /\ gets' = Append(gets,
          [kind |-> "info", id |-> id, pc |-> "done",
           status |-> IF st = 0 THEN 200 ELSE st,
           length |-> IF st = 0 THEN FileDoc(id).length ELSE 0,
           n |-> 0, bytes |-> <<>>, outcome |-> IF st = 0 THEN "ok" ELSE "refused",
           sends |-> 1, offset |-> 0])
    /\ UNCHANGED <<files, chunks, nextId, uploads, deletes, catalogVars, dbVars>>

\* The first byte a retrieval asks for in its Range header (bytes=offset-);
\* 0 stands for a request without the header.
Offsets == {0, 1}

\* getImage up to gfs.openDownloadStream(_id) and pipe: nothing is sent yet
\* when the document was found.  The handler reads no header of the
\* request and opens the stream without a start: `offset` is recorded as
\* asked and read by no action.
GetImage(id, offset) ==
    LET st == ImageLookup(id) IN
    /\ ReqCount < MaxReqs
    /\ gets' = Append(gets,
          [kind |-> "image", id |-> id, pc |-> IF st = 0 THEN "init" ELSE "done",
           status |-> st, length |-> 0,
           n |-> 0, bytes |-> <<>>, outcome |-> IF st = 0 THEN "open" ELSE "refused",
           sends |-> IF st = 0 THEN 0 ELSE 1, offset |-> offset])
    /\ UNCHANGED <<files, chunks, nextId, uploads, deletes, catalogVars, dbVars>>

\* The download stream reads the files document itself before the first
\* chunk; when it is gone 'error' fires and the handler answers 404.  A blob
\* of length 0 ends at once.
GetStreamInit(g) ==
    LET q == gets[g] IN
    /\ q.pc = "init"
    /\ gets' = [gets EXCEPT ![g] =
          IF ~FileExists(q.id)
          THEN [q EXCEPT !.pc = "done", !.status = 404, !.outcome = "error", !.sends = 1]
          ELSE IF FileDoc(q.id).length = 0
          THEN [q EXCEPT !.pc = "done", !.status = 200, !.outcome = "ok", !.sends = 1]
          ELSE [q EXCEPT !.pc = "stream", !.length = FileDoc(q.id).length]]
    /\ UNCHANGED <<files, chunks, nextId, uploads, deletes, catalogVars, dbVars>>

\* A download that pipes each chunk in front of the bytes already sent.
Piped_Prepend(bytes, c) == c.data \o bytes

\* The bytes a download has piped after chunk document c.
Piped(bytes, c) == bytes \o c.data

\* The download stream reads the chunk documents in ascending n and pipes
\* them to the response; the first write sends the headers (status 200).
\* A missing chunk document fires 'error' and the handler calls
\* res.status(404).json: the first answer when nothing was piped, a second
\* one on a response already begun otherwise.
GetStreamChunk(g) ==
    LET q == gets[g] IN
    /\ q.pc = "stream"
    /\ gets' = [gets EXCEPT ![g] =
          IF HasChunk(q.id, q.n)
          THEN [q EXCEPT !.bytes = Piped(q.bytes, ChunkAt(q.id, q.n)),
                         !.n = q.n + 1, !.status = 200, !.sends = 1,
                         !.pc = IF q.n + 1 = NumChunks(q.length) THEN "done" ELSE "stream",
                         !.outcome = IF q.n + 1 = NumChunks(q.length) THEN "ok" ELSE "open"]
          ELSE [q EXCEPT !.pc = "done", !.outcome = "error",
                         !.status = IF q.n = 0 THEN 404 ELSE 200,
                         !.sends = q.sends + 1]]
    /\ UNCHANGED <<files, chunks, nextId, uploads, deletes, catalogVars, dbVars>>

\* The consumer stops reading before the last chunk: the response closes.
\* pipe() answers the close of its sink by unpiping it, which pauses the
\* download stream; the handler listens to no 'close' of the response and
\* destroys nothing, so the stream stays open and paused, no chunk is read
\* any more and nothing is recorded.
GetSinkClose(g) ==
    LET q == gets[g] IN
    /\ q.pc = "stream"
    /\ gets' = [gets EXCEPT ![g].pc = "unpiped"]
    /\ UNCHANGED <<files, chunks, nextId, uploads, deletes, catalogVars, dbVars>>

---------------------------------------------------------------------------
(* deleteImage *)

\* A lookup of deleteImage that leaves the existence check to gfs.delete.
DeleteLookup_Unchecked(id) == IF ~isValid(id) THEN 400 ELSE 0

\* The lookup of deleteImage.
DeleteLookup(id) == LookupStatus(id)

\* deleteImage up to gfs.delete(_id): 400, 404, or the delete begins.
\* History, read by no action: `existed` records whether the files document
\* was there when the request arrived, `after` whether a delete of the same
\* id had already been answered 200, `fault` whether the storage failed.
DeleteImage(id) ==
    LET st == DeleteLookup(id) IN
    /\ ReqCount < MaxReqs
    /\ deletes' = Append(deletes,
          [id |-> id, pc |-> IF st = 0 THEN "files" ELSE "done",
           status |-> st, existed |-> isValid(id) /\ FileExists(id),
           after |-> \E e \in 1..Len(deletes) :
                        deletes[e].id = id /\ deletes[e].status = 200,
           deletedCount |-> 0, fault |-> FALSE])
    /\ UNCHANGED <<files, chunks, nextId, uploads, gets, catalogVars, dbVars>>

\* A deleteOne that leaves the files document in place.
FilesAfterDelete_Kept(id) == files

\* The files collection after deleteOne({_id: id}).
FilesAfterDelete(id) == { f \in files : f.id # id }

\* gfs.delete, first step: deleteOne on the files collection.
DeleteFilesDoc(d) ==
    LET q == deletes[d] IN
    /\ q.pc = "files"
    /\ files' = FilesAfterDelete(q.id)
    /\ deletes' = [deletes EXCEPT ![d].pc = "chunks",
                      ![d].deletedCount = IF FileExists(q.id) THEN 1 ELSE 0]
    /\ UNCHANGED <<chunks, nextId, uploads, gets, catalogVars, dbVars>>

\* The chunk collection after deleteMany({files_id: id}).
ChunksAfterDelete(id) == chunks \ ChunksOf(id)

\* gfs.delete, second step: deleteMany on the chunks collection, then the
\* "file not found" error when the first step removed nothing.  The handler
\* answers 200, or 500 from its catch block.
DeleteChunks(d) ==
    LET q == deletes[d] IN
    /\ q.pc = "chunks"
    /\ chunks' = ChunksAfterDelete(q.id)
    /\ deletes' = [deletes EXCEPT ![d].pc = "done",
                      ![d].status = IF q.deletedCount = 0 THEN 500 ELSE 200]
    /\ UNCHANGED <<files, nextId, uploads, gets, catalogVars, dbVars>>

\* A storage operation of gfs.delete fails: the catch block answers 500.
DeleteError(d) ==
    /\ deletes[d].pc \in {"files", "chunks"}
    /\ deletes' = [deletes EXCEPT ![d].pc = "done", ![d].status = 500, ![d].fault = TRUE]
    /\ UNCHANGED <<files, chunks, nextId, uploads, gets, catalogVars, dbVars>>

BlobNext ==
    \/ \E kind \in {"single", "multiple"} : \E fs \in FileLists(kind) : UploadRequest(kind, fs)
    \/ \E r \in 1..Len(uploads) : UploadWriteChunk(r)
    \/ \E r \in 1..Len(uploads) : UploadFinish(r)
    \/ \E r \in 1..Len(uploads) : UploadError(r)
    \/ \E id \in RequestIds : GetImageInfo(id)
    \/ \E id \in RequestIds : \E offset \in Offsets : GetImage(id, offset)
    \/ \E g \in 1..Len(gets) : GetStreamInit(g)
    \/ \E g \in 1..Len(gets) : GetStreamChunk(g)
    \/ \E g \in 1..Len(gets) : GetSinkClose(g)
    \/ \E id \in RequestIds : DeleteImage(id)
    \/ \E d \in 1..Len(deletes) : DeleteFilesDoc(d)
    \/ \E d \in 1..Len(deletes) : DeleteChunks(d)
    \/ \E d \in 1..Len(deletes) : DeleteError(d)

Next == BlobNext

Spec == Init /\ [][Next]_vars

---------------------------------------------------------------------------
(* config/database.ts: connectDB and the events of the connection *)

\* const MAX_CONNECTION_ATTEMPTS = 5
MAX_CONNECTION_ATTEMPTS == 5

\* app.ts calls connectDB() once when the process starts: the call is
\* awaiting mongoose.connect.  NODE_ENV is 'production' or not.
DbInit ==
    /\ files = {} /\ chunks = {} /\ nextId = 1
    /\ uploads = <<>> /\ deletes = <<>> /\ gets = <<>>
    /\ housing = {} /\ establishments = {} /\ listing = NoListing /\ imports = <<>>
    /\ connectionAttempts = 0 /\ connecting = 1
    /\ retryTimers = 0 /\ reconnectTimers = 0
    /\ readyState = "disconnected" /\ everConnected = FALSE
    /\ production \in BOOLEAN /\ exited = FALSE /\ outages = 0

\* mongoose.connect resolves in a call of connectDB: the counter is reset.
ConnectSuccess ==
    /\ ~exited /\ connecting > 0
    /\ connecting' = connecting - 1
    /\ connectionAttempts' = 0
    /\ readyState' = "connected"
    /\ everConnected' = TRUE
    /\ UNCHANGED <<retryTimers, reconnectTimers, production, exited, outages,
                   blobVars, catalogVars>>

\* mongoose.connect rejects (or MONGODB_URI is not defined) in a call of
\* connectDB: the catch block counts the attempt, then arms the retry
\* timer while the counter is below MAX_CONNECTION_ATTEMPTS, goes on
\* without a database in production, or stops the process.
ConnectFail ==
    /\ ~exited /\ connecting > 0
    /\ readyState = "disconnected"
    /\ connecting' = connecting - 1
    /\ connectionAttempts' = connectionAttempts + 1
    /\ retryTimers' = IF connectionAttempts + 1 < MAX_CONNECTION_ATTEMPTS
                      THEN retryTimers + 1 ELSE retryTimers
    /\ exited' = (connectionAttempts + 1 >= MAX_CONNECTION_ATTEMPTS /\ ~production)
    /\ UNCHANGED <<reconnectTimers, readyState, everConnected, production, outages,
                   blobVars, catalogVars>>

\* setTimeout(connectDB, delay) of the catch block fires.
RetryTimerFires ==
    /\ ~exited /\ retryTimers > 0
    /\ retryTimers' = retryTimers - 1
    /\ connecting' = connecting + 1
    /\ UNCHANGED <<connectionAttempts, reconnectTimers, readyState, everConnected,
                   production, exited, outages, blobVars, catalogVars>>

\* setTimeout(connectDB, 5000) of the 'disconnected' listener fires.
ReconnectTimerFires ==
    /\ ~exited /\ reconnectTimers > 0
    /\ reconnectTimers' = reconnectTimers - 1
    /\ connecting' = connecting + 1
    /\ UNCHANGED <<connectionAttempts, retryTimers, readyState, everConnected,
                   production, exited, outages, blobVars, catalogVars>>

\* The connection is lost: 'disconnected' fires and, in production, the
\* listener arms the reconnect timer, whatever the counter and the timers
\* already armed.
Disconnected ==
    /\ ~exited /\ readyState = "connected"
    /\ outages < MaxOutages
    /\ outages' = outages + 1
    /\ readyState' = "disconnected"
    /\ reconnectTimers' = IF production THEN reconnectTimers + 1 ELSE reconnectTimers
    /\ UNCHANGED <<connectionAttempts, connecting, retryTimers, everConnected,
                   production, exited, blobVars, catalogVars>>

\* The driver gets the lost connection back on its own ('reconnected'):
\* initGridFS is called, the counter is left as it is.
Reconnected ==
    /\ ~exited /\ readyState = "disconnected" /\ everConnected
    /\ readyState' = "connected"
    /\ UNCHANGED <<connectionAttempts, connecting, retryTimers, reconnectTimers,
                   everConnected, production, exited, outages, blobVars, catalogVars>>

DbNext ==
    \/ ConnectSuccess
    \/ ConnectFail
    \/ RetryTimerFires
    \/ ReconnectTimerFires
    \/ Disconnected
    \/ Reconnected

DbSpec == DbInit /\ [][DbNext]_vars

---------------------------------------------------------------------------
(* Properties of the media store *)

UploadIdx == 1..Len(uploads)
GetIdx == 1..Len(gets)
DeleteIdx == 1..Len(deletes)

\* C1: an upload whose storage write failed is answered with a failure and
\* leaves nothing behind: the lookup of its blob id answers 404 and the
\* chunk collection holds no chunk of that id.
C1_FailedUploadLeavesNothing ==
    \A r \in UploadIdx :
        uploads[r].failedAt # 0 =>
            /\ uploads[r].status >= 400
            /\ LookupStatus(uploads[r].id) = 404
            /\ ChunksOf(uploads[r].id) = {}

\* C2: while the stream of a blob is being written the lookup of getImage
\* and getImageInfo answers 404 for its id and no retrieval of the id was
\* answered otherwise; a files document of an uploaded blob is there only
\* with every chunk of the blob stored.
C2_DraftInvisible ==
    \A r \in UploadIdx :
        LET u == uploads[r] IN
        /\ u.pc = "writing" =>
              /\ ImageLookup(u.id) = 404 /\ InfoLookup(u.id) = 404
              /\ \A g \in GetIdx : gets[g].id = u.id =>
                    gets[g].status = 404 /\ gets[g].bytes = <<>>
        /\ \A k \in 1..Len(u.uploadedImages) :
              FileExists(u.uploadedImages[k].fileId) =>
                 ChunksOf(u.uploadedImages[k].fileId)
                    = StoredChunks(u.uploadedImages[k].fileId, u.files[k].buffer)

\* A retrieval was answered 404 for the id of a stream with a chunk stored.
C2_Witness ==
    \E r \in UploadIdx, g \in GetIdx :
        /\ uploads[r].pc = "writing"
        /\ ChunksOf(uploads[r].id) # {}
        /\ gets[g].id = uploads[r].id
        /\ gets[g].status = 404

\* C3: for every file an upload stored, the files document and the metadata
\* retrieval give the length reported to the uploader, which is the length
\* of the input; a retrieval pipes the bytes of the input in order, and a
\* retrieval that ended well piped exactly the input.
C3_RoundTrip ==
    \A r \in UploadIdx :
        \A k \in 1..Len(uploads[r].uploadedImages) :
            LET rec == uploads[r].uploadedImages[k]
                input == uploads[r].files[k].buffer
            IN
            /\ rec.size = Len(input)
            /\ FileExists(rec.fileId) => FileDoc(rec.fileId).length = rec.size
            /\ \A g \in GetIdx : gets[g].id = rec.fileId =>
                  /\ gets[g].kind = "info" /\ gets[g].status = 200
                        => gets[g].length = rec.size
                  /\ gets[g].kind = "image"
                        => gets[g].bytes = SubSeq(input, 1, Len(gets[g].bytes))
                  /\ gets[g].kind = "image" /\ gets[g].outcome = "ok"
                        => gets[g].bytes = input /\ Len(gets[g].bytes) = rec.size

\* A blob of several chunks was uploaded with success and retrieved whole.
C3_Witness ==
    \E r \in UploadIdx, g \in GetIdx :
        /\ uploads[r].status = 200
        /\ Len(uploads[r].images) >= 1
        /\ gets[g].id = uploads[r].images[1].fileId
        /\ gets[g].kind = "image" /\ gets[g].outcome = "ok"
        /\ Len(gets[g].bytes) > ChunkSize

\* C4: when a file of a multi-file upload failed, every other file of the
\* request was uploaded and the answer reports it.
C4_SiblingsSurviveFailure ==
    \A r \in UploadIdx :
        LET u == uploads[r] IN
        (u.kind = "multiple" /\ u.pc = "done" /\ u.failedAt # 0) =>
            \A j \in 1..Len(u.files) : j # u.failedAt =>
                /\ \E k \in 1..Len(u.uploadedImages) :
                      u.uploadedImages[k].originalName = u.files[j].originalname
                /\ \E k \in 1..Len(u.images) :
                      u.images[k].originalName = u.files[j].originalname

\* C5: a delete answered 200 found the blob and left neither its files
\* document nor a chunk of it, for good; a delete of a well-formed id whose
\* blob was not there is answered 404, so is a delete that follows a delete
\* of the same id answered 200; a delete of a blob that was there is
\* answered 200 unless the storage failed or another delete took the blob.
C5_DeleteTwice ==
    \A d \in DeleteIdx :
        LET q == deletes[d] IN
        q.pc = "done" =>
            /\ q.status = 200 =>
                  q.existed /\ ~FileExists(q.id) /\ ChunksOf(q.id) = {}
            /\ (isValid(q.id) /\ ~q.existed) => q.status = 404
            /\ q.after => q.status = 404
            /\ (q.existed /\ q.status # 200) =>
                  q.status = 500 /\ (q.fault \/ q.deletedCount = 0)

\* The same id was deleted twice in a row: 200, then 404.
C5_Witness ==
    \E d, e \in DeleteIdx :
        /\ deletes[d].id = deletes[e].id
        /\ deletes[d].status = 200
        /\ deletes[e].after /\ deletes[e].status = 404

\* The content types of the allowed image set.
IsAllowedImage(file) == file.mimetype \in ImageTypes

\* C6: a request with a file over the size ceiling or of a content type
\* outside the allowed image set is refused before any stream is opened.
C6_RefusedBeforeStored ==
    \A r \in UploadIdx :
        LET u == uploads[r] IN
        (\E j \in 1..Len(u.files) :
            Len(u.files[j].buffer) > FileSizeLimit \/ ~IsAllowedImage(u.files[j]))
        => (u.pc = "done" /\ u.status >= 400 /\ u.id = 0 /\ u.uploadedImages = <<>>)

---------------------------------------------------------------------------
(* Catalog listings: request parameters and numbers *)

\* A query-string parameter: absent (undefined), or present with a text.
\* A text that is parsed or searched is a sequence of characters (P); one
\* that is only compared is a string (W).
Absent == [present |-> FALSE, text |-> <<>>]
P(text) == [present |-> TRUE, text |-> text]
NoWord == [present |-> FALSE, text |-> ""]
W(text) == [present |-> TRUE, text |-> text]

\* JavaScript truthiness of a parameter: undefined and "" are falsy.
Truthy(p) == p.present /\ p.text # <<>>
TruthyWord(p) == p.present /\ p.text # ""

\* A JavaScript number: an integer, NaN, or Infinity.
Num(v) == [k |-> "num", v |-> v]
NaN == [k |-> "NaN", v |-> 0]
Infinity == [k |-> "Infinity", v |-> 0]
IsNum(x) == x.k = "num"

Digits == <<"0", "1", "2", "3", "4", "5", "6", "7", "8", "9">>
IsDigit(c) == \E d \in 1..10 : Digits[d] = c
DigitVal(c) == (CHOOSE d \in 1..10 : Digits[d] = c) - 1

RECURSIVE DropSpaces(_)
DropSpaces(t) == IF t # <<>> /\ Head(t) = " " THEN DropSpaces(Tail(t)) ELSE t

RECURSIVE DropTrailingSpaces(_)
DropTrailingSpaces(t) ==
    IF t # <<>> /\ t[Len(t)] = " " THEN DropTrailingSpaces(SubSeq(t, 1, Len(t) - 1)) ELSE t

\* The longest prefix of t made of digits.
RECURSIVE DigitPrefix(_)
DigitPrefix(t) ==
    IF t # <<>> /\ IsDigit(Head(t)) THEN <<Head(t)>> \o DigitPrefix(Tail(t)) ELSE <<>>

RECURSIVE DigitsValue(_)
DigitsValue(t) ==
    IF t = <<>> THEN 0 ELSE 10 * DigitsValue(SubSeq(t, 1, Len(t) - 1)) + DigitVal(t[Len(t)])

HasSign(t) == t # <<>> /\ Head(t) \in {"-", "+"}
Unsigned(t) == IF HasSign(t) THEN Tail(t) ELSE t
SignOf(t) == IF t # <<>> /\ Head(t) = "-" THEN -1 ELSE 1

\* parseInt(text): leading white space, a sign, then the digits up to the
\* first character that is none; NaN when there is no digit.
parseInt(text) ==
    LET t == DropSpaces(text)
        d == DigitPrefix(Unsigned(t))
    IN IF d = <<>> THEN NaN ELSE Num(SignOf(t) * DigitsValue(d))

\* Number(text): the whole trimmed text must be a number ("" is 0); the
\* texts of the model hold no fraction, exponent or radix prefix.
Number(text) ==
    LET t == DropTrailingSpaces(DropSpaces(text))
        d == DigitPrefix(Unsigned(t))
    IN IF t = <<>> THEN Num(0)
       ELSE IF d # <<>> /\ d = Unsigned(t) THEN Num(SignOf(t) * DigitsValue(d))
       ELSE NaN

\* (pageNum - 1) * limitNum
SkipOf(pageNum, limitNum) ==
    IF IsNum(pageNum) /\ IsNum(limitNum) THEN Num((pageNum.v - 1) * limitNum.v) ELSE NaN

\* Math.ceil(total / limitNum)
CeilDiv(total, limitNum) ==
    IF ~IsNum(limitNum) THEN NaN
    ELSE IF limitNum.v = 0 THEN (IF total = 0 THEN NaN ELSE Infinity)
    ELSE IF limitNum.v > 0 THEN Num((total + limitNum.v - 1) \div limitNum.v)
    ELSE Num(-(total \div (-limitNum.v)))

\* The page and limit of a request: the defaults 1 and 12 stand in for an
\* absent parameter only.
PageNum(p) == parseInt(IF p.page.present THEN p.page.text ELSE <<"1">>)
LimitNum(p) == parseInt(IF p.limit.present THEN p.limit.text ELSE <<"1", "2">>)

---------------------------------------------------------------------------
(* Catalog listings: the collections *)

Uppercase == <<"D", "T", "E", "U", "A", "C", "S", "P", "L", "F", "N">>
Lowercase == <<"d", "t", "e", "u", "a", "c", "s", "p", "l", "f", "n">>
Lower(c) == IF \E j \in 1..Len(Uppercase) : Uppercase[j] = c
            THEN Lowercase[CHOOSE j \in 1..Len(Uppercase) : Uppercase[j] = c]
            ELSE c

\* {$regex: pattern, $options: 'i'} on a text: a search that ignores case,
\* in which "." stands for any character (the patterns of the model hold no
\* other metacharacter).
RegexMatch(pattern, text) ==
    \E j \in 1..(Len(text) - Len(pattern) + 1) :
        \A k \in 1..Len(pattern) :
            pattern[k] = "." \/ Lower(pattern[k]) = Lower(text[j + k - 1])

Dakar == <<"D", "a", "k", "a", "r">>
Thies == <<"T", "h", "i", "e", "s">>

\* The free-text fields of the sample housing documents, by id: title,
\* description, neighborhood and amenities.
HousingTexts ==
    <<[title |-> <<"L", "o", "f", "t">>, description |-> <<"c", "a", "l", "m", "e">>,
       neighborhood |-> <<"P", "l", "a", "t", "e", "a", "u">>,
       amenities |-> {<<"w", "i", "f", "i">>}],
      [title |-> <<"C", "o", "l", "o", "c">>, description |-> <<"n", "e", "u", "f">>,
       neighborhood |-> <<"F", "a", "n", "n">>,
       amenities |-> {<<"w", "i", "f", "i">>, <<"c", "l", "i", "m">>}],
      [title |-> <<"C", "i", "t", "e">>, description |-> <<"c", "a", "m", "p", "u", "s">>,
       neighborhood |-> <<"N", "o", "r", "d">>,
       amenities |-> {}],
      [title |-> <<"S", "t", "u", "d", "i", "o">>, description |-> <<"c", "a", "l", "m", "e">>,
       neighborhood |-> <<"N", "o", "r", "d">>,
       amenities |-> {<<"c", "l", "i", "m">>}],
      [title |-> <<"C", "a", "s", "e">>, description |-> <<"n", "e", "u", "f">>,
       neighborhood |-> <<"F", "a", "n", "n">>,
       amenities |-> {}],
      [title |-> <<"S", "a", "l", "l", "e">>, description |-> <<"n", "e", "u", "f">>,
       neighborhood |-> <<"N", "o", "r", "d">>,
       amenities |-> {}]>>

Home(id, type, location, price, bedrooms, isAvailable, createdAt) ==
    [id |-> id, type |-> type, location |-> location, price |-> price,
     bedrooms |-> bedrooms, isAvailable |-> isAvailable, createdAt |-> createdAt,
     title |-> HousingTexts[id].title, description |-> HousingTexts[id].description,
     neighborhood |-> HousingTexts[id].neighborhood,
     amenities |-> HousingTexts[id].amenities]

\* The price of a document that holds no price field (a document stored
\* without the schema's validation); a price is 0 or more, and a sort
\* puts the missing field before every number.
NoPrice == -1

HasPrice(h) == h.price # NoPrice

\* The documents of a set that hold a price.
Priced(S) == { h \in S : HasPrice(h) }

\* Housing documents without a price.
UnpricedHousing ==
    { Home(5, "studio", Dakar, NoPrice, 1, TRUE, 5),
      Home(6, "colocation", Thies, NoPrice, 2, TRUE, 6) }

\* The housing documents a collection may hold.
SampleHousing ==
    { Home(1, "studio", Dakar, 100, 1, TRUE, 1),
      Home(2, "colocation", Dakar, 200, 2, TRUE, 2),
      Home(3, "university", Thies, 300, 1, FALSE, 3),
      Home(4, "studio", Dakar, 200, 3, TRUE, 4) }

\* An establishment document: `email` is contact.email.
Establishment(id, name, description, type, location, programs, email, createdAt) ==
    [id |-> id, name |-> name, description |-> description, type |-> type,
     location |-> location, programs |-> programs, email |-> email,
     createdAt |-> createdAt]

\* The programs and the contact email of the sample establishments, by id.
SchoolPrograms == <<{<<"d", "r", "o", "i", "t">>}, {<<"g", "e", "n", "i", "e">>}, {}>>
SchoolEmail ==
    <<<<"u", "@", "s", ".", "n">>, <<"e", "@", "s", ".", "n">>, <<"t", "@", "s", ".", "n">>>>

School(id, name, description, type, location, createdAt) ==
    Establishment(id, name, description, type, location,
                  SchoolPrograms[id], SchoolEmail[id], createdAt)

\* The establishment documents a collection may hold.
SampleEstablishments ==
    { School(1, <<"U", "C", "A", "D">>, <<"u", "n", "i">>, "university", Dakar, 1),
      School(2, <<"E", "S", "P">>, <<"e", "c", "o", "l", "e">>, "school", Dakar, 2),
      School(3, <<"U", "T">>, <<"t", "e", "c", "h">>, "university", Thies, 3) }

\* The orders a sorted find may return a set of documents in: every
\* arrangement in which the sort key never goes against the direction;
\* documents with equal keys come in any order.
Orders(docs, key, dir) ==
    { o \in [1..Cardinality(docs) -> docs] :
        /\ \A a, b \in 1..Cardinality(docs) : a # b => o[a] # o[b]
        /\ \A a, b \in 1..Cardinality(docs) : a < b => dir * key[o[a]] <= dir * key[o[b]] }

\* .skip(skip).limit(limit) on an ordered result: limit 0 is no limit and a
\* negative limit is taken by its absolute value.
Window(ord, skip, limit) ==
    LET size == IF limit = 0 THEN Len(ord)
                ELSE IF limit < 0 THEN -limit ELSE limit
    IN SubSeq(ord, skip + 1, Min(Len(ord), skip + size))

\* A find with a skip or a limit that is NaN, or with a negative skip, is
\* refused by the database.
WindowRefused(skip, limitNum) ==
    ~IsNum(skip) \/ ~IsNum(limitNum) \/ skip.v < 0

---------------------------------------------------------------------------
(* getAllHousing *)

\* The filter getAllHousing builds from the request.
HousingQuery(p) ==
    [hasType |-> TruthyWord(p.type), type |-> p.type.text,
     hasLocation |-> Truthy(p.location), location |-> p.location.text,
     hasGte |-> Truthy(p.minPrice), gte |-> Number(p.minPrice.text),
     hasLte |-> Truthy(p.maxPrice), lte |-> Number(p.maxPrice.text),
     hasBedrooms |-> Truthy(p.bedrooms), bedrooms |-> Number(p.bedrooms.text),
     hasAvailable |-> p.available.present, isAvailable |-> p.available.text = "true"]

\* A filter value that is NaN for a Number path fails the cast of the query.
HousingCastFails(q) ==
    \/ q.hasGte /\ ~IsNum(q.gte)
    \/ q.hasLte /\ ~IsNum(q.lte)
    \/ q.hasBedrooms /\ ~IsNum(q.bedrooms)

\* A price filter whose lower bound lets equal prices out.
PriceMatches_Exclusive(h, q) ==
    /\ q.hasGte => HasPrice(h) /\ h.price > q.gte.v
    /\ q.hasLte => HasPrice(h) /\ h.price <= q.lte.v

\* query.price = {$gte, $lte}: a document without the field matches no
\* comparison.
PriceMatches(h, q) ==
    /\ q.hasGte => HasPrice(h) /\ h.price >= q.gte.v
    /\ q.hasLte => HasPrice(h) /\ h.price <= q.lte.v

\* Does a housing document satisfy the filter?
HousingMatches(h, q) ==
    /\ q.hasType => h.type = q.type
    /\ q.hasLocation => RegexMatch(q.location, h.location)
    /\ PriceMatches(h, q)
    /\ q.hasBedrooms => h.bedrooms = q.bedrooms.v
    /\ q.hasAvailable => h.isAvailable = q.isAvailable

\* The value a housing document is sorted by: a field no document holds
\* gives every document the same key.
HousingSortKey(field, h) ==
    IF field = "createdAt" THEN h.createdAt
    ELSE IF field = "price" THEN h.price
    ELSE IF field = "bedrooms" THEN h.bedrooms
    ELSE 0

SortField(p) == IF p.sort.present THEN p.sort.text ELSE "createdAt"
SortDir(p) == IF p.order.present /\ p.order.text = "asc" THEN 1 ELSE -1

\* The orders Housing.find(query).sort(sortOptions) may return.
HousingOrders(coll, p) ==
    LET q == HousingQuery(p)
        found == { h \in coll : HousingMatches(h, q) }
    IN Orders(found, [h \in found |-> HousingSortKey(SortField(p), h)], SortDir(p))

SetMin(S) == CHOOSE x \in S : \A y \in S : x <= y
SetMax(S) == CHOOSE x \in S : \A y \in S : x >= y

\* Housing.findOne().sort({price: dir}).select('price'): the price of the
\* first document in that order, NoPrice when there is no document or the
\* first one holds no price.
FirstByPrice(coll, dir) ==
    IF coll = {} THEN NoPrice
    ELSE IF dir = 1 THEN SetMin({ h.price : h \in coll })
    ELSE SetMax({ h.price : h \in coll })

\* result?.price || 0
PriceOrZero(price) == IF price = NoPrice THEN 0 ELSE price

\* Facets taken from the documents the filter keeps.
DistinctScope_Filtered(coll, q) == { h \in coll : HousingMatches(h, q) }

\* The documents Housing.distinct(field) looks at: it is called without the
\* filter q of the request.
DistinctScope(coll, q) == coll

\* The answer of getAllHousing to request p over collection coll, the find
\* returning the matching documents in order ord.
HousingAnswer(coll, p, ord) ==
    LET q == HousingQuery(p)
        pageNum == PageNum(p)
        limitNum == LimitNum(p)
        skip == SkipOf(pageNum, limitNum)
        total == Len(ord)
    IN IF HousingCastFails(q) \/ WindowRefused(skip, limitNum)
       THEN [op |-> "housing", params |-> p, status |-> 500, ord |-> ord]
       ELSE [op |-> "housing", params |-> p, status |-> 200, ord |-> ord,
             data |-> Window(ord, skip.v, limitNum.v),
             count |-> Len(Window(ord, skip.v, limitNum.v)),
             total |-> total,
             totalPages |-> CeilDiv(total, limitNum),
             currentPage |-> pageNum,
             priceRange |-> [min |-> PriceOrZero(FirstByPrice(coll, 1)),
                             max |-> PriceOrZero(FirstByPrice(coll, -1))],
             filters |-> [types |-> {h.type : h \in DistinctScope(coll, q)},
                          locations |-> {h.location : h \in DistinctScope(coll, q)},
                          bedroomOptions |-> {h.bedrooms : h \in DistinctScope(coll, q)}]]

HousingParams(type, location, minPrice, maxPrice, bedrooms, available, page, limit, sort, order) ==
    [type |-> type, location |-> location, minPrice |-> minPrice, maxPrice |-> maxPrice,
     bedrooms |-> bedrooms, available |-> available, page |-> page, limit |-> limit,
     sort |-> sort, order |-> order]

PageTexts ==
    { Absent, P(<<"1">>), P(<<"2">>), P(<<"3">>), P(<<"0">>), P(<<"-", "1">>),
      P(<<"a", "b", "c">>), P(<<"2", "x">>) }

LimitTexts ==
    { Absent, P(<<"1">>), P(<<"2">>), P(<<"0">>), P(<<"-", "1">>), P(<<"x">>),
      P(<<"9", "9">>) }

\* The requests of the model: every filter with the first page, and every
\* page and limit with a price filter or none.
HousingRequests ==
    { HousingParams(type, location, minPrice, maxPrice, bedrooms, available,
                    Absent, Absent, NoWord, NoWord) :
        type \in {NoWord, W("studio")},
        location \in {Absent, P(<<"d", "a", "k">>), P(<<"T", ".", "i">>)},
        minPrice \in {Absent, P(<<"1", "5", "0">>), P(<<"2", "0", "0">>), P(<<"0">>),
                      P(<<>>), P(<<"a", "b", "c">>)},
        maxPrice \in {Absent, P(<<"2", "5", "0">>), P(<<"2", "0", "0">>)},
        bedrooms \in {Absent, P(<<"1">>)},
        available \in {NoWord, W("true")} }
    \cup
    { HousingParams(NoWord, Absent, minPrice, Absent, Absent, NoWord,
                    page, limit, sort[1], sort[2]) :
        minPrice \in {Absent, P(<<"1", "5", "0">>)},
        page \in PageTexts, limit \in LimitTexts,
        sort \in {<<NoWord, NoWord>>, <<W("price"), W("asc")>>, <<W("bogus"), NoWord>>} }

GetAllHousing(p) ==
    /\ listing = NoListing
    /\ \E ord \in HousingOrders(housing, p) :
          listing' = HousingAnswer(housing, p, ord)
    /\ UNCHANGED <<housing, establishments, imports, blobVars, dbVars>>

---------------------------------------------------------------------------
(* getEstablishments *)

\* The filter getEstablishments builds from the request.
EstablishmentQuery(p) ==
    [hasType |-> TruthyWord(p.type), type |-> p.type.text,
     hasLocation |-> Truthy(p.location), location |-> p.location.text,
     hasSearch |-> Truthy(p.search), search |-> p.search.text,
     hasExclude |-> p.exclude.present, exclude |-> p.exclude.id]

\* query._id = {$ne: exclude}: a text that is no ObjectId fails the cast.
EstablishmentCastFails(q) == q.hasExclude /\ ~isValid(q.exclude)

\* A filter that forgets the exclusion.
EstablishmentMatches_NoExclude(e, q) ==
    /\ q.hasType => e.type = q.type
    /\ q.hasLocation => RegexMatch(q.location, e.location)
    /\ q.hasSearch => \/ RegexMatch(q.search, e.name)
                      \/ RegexMatch(q.search, e.description)
                      \/ RegexMatch(q.search, e.location)

EstablishmentMatches(e, q) ==
    /\ q.hasType => e.type = q.type
    /\ q.hasLocation => RegexMatch(q.location, e.location)
    /\ q.hasSearch => \/ RegexMatch(q.search, e.name)
                      \/ RegexMatch(q.search, e.description)
                      \/ RegexMatch(q.search, e.location)
    /\ q.hasExclude => e.id # q.exclude

\* The orders Establishment.find(query).sort({createdAt: -1}) may return.
EstablishmentOrders(coll, p) ==
    LET found == { e \in coll : EstablishmentMatches(e, EstablishmentQuery(p)) }
    IN Orders(found, [e \in found |-> e.createdAt], -1)

\* The answer of getEstablishments.
EstablishmentAnswer(coll, p, ord) ==
    LET q == EstablishmentQuery(p)
        pageNum == PageNum(p)
        limitNum == LimitNum(p)
        skip == SkipOf(pageNum, limitNum)
        total == Len(ord)
    IN IF EstablishmentCastFails(q) \/ WindowRefused(skip, limitNum)
       THEN [op |-> "establishments", params |-> p, status |-> 500, ord |-> ord]
       ELSE [op |-> "establishments", params |-> p, status |-> 200, ord |-> ord,
             data |-> Window(ord, skip.v, limitNum.v),
             count |-> Len(Window(ord, skip.v, limitNum.v)),
             total |-> total,
             totalPages |-> CeilDiv(total, limitNum),
             currentPage |-> pageNum]

\* The exclude parameter: absent, or present with an id.
NoExclude == [present |-> FALSE, id |-> 0]
Exclude(id) == [present |-> TRUE, id |-> id]

EstablishmentRequests ==
    { [type |-> f[1], location |-> f[2], search |-> f[3], exclude |-> exclude,
       page |-> page, limit |-> limit] :
        f \in { <<NoWord, Absent, Absent>>,
                <<W("university"), P(<<"d", "a", "k">>), Absent>>,
                <<NoWord, Absent, P(<<"u">>)>> },
        exclude \in {NoExclude, Exclude(1), Exclude(-1)},
        page \in PageTexts, limit \in LimitTexts }

GetEstablishments(p) ==
    /\ listing = NoListing
    /\ \E ord \in EstablishmentOrders(establishments, p) :
          listing' = EstablishmentAnswer(establishments, p, ord)
    /\ UNCHANGED <<housing, establishments, imports, blobVars, dbVars>>

---------------------------------------------------------------------------
(* getHousingById *)

\* The ids a housing request may name: those of the sample documents, 0 a
\* well-formed id of no document, -1 a text that is no ObjectId.
HousingIds == {-1, 0} \cup { h.id : h \in SampleHousing \cup UnpricedHousing }

\* The orders a find without a sort may return a set of documents in.
AnyOrder(docs) == Orders(docs, [d \in docs |-> 0], 1)

\* The filter of the similar housing of document h.
SimilarMatches(s, h) ==
    /\ s.id # h.id
    /\ s.location = h.location
    /\ s.type = h.type
    /\ s.isAvailable = TRUE

\* .limit(4) of the similar housing.
SimilarLimit == 4

\* The documents Housing.find({_id: {$ne}, location, type, isAvailable})
\* may return for the document of id `id`, in the orders it may return them.
SimilarOrders(coll, id) ==
    AnyOrder({ s \in coll : \E h \in coll : h.id = id /\ SimilarMatches(s, h) })

\* The answer of getHousingById: findById fails the cast of a text that is
\* no ObjectId (500), finds no document (404), or the document is returned
\* with its similar housing.
HousingDetailAnswer(coll, id, ord) ==
    IF ~isValid(id)
    THEN [op |-> "detail", id |-> id, status |-> 500, ord |-> ord]
    ELSE IF ~\E h \in coll : h.id = id
    THEN [op |-> "detail", id |-> id, status |-> 404, ord |-> ord]
    ELSE [op |-> "detail", id |-> id, status |-> 200, ord |-> ord,
          data |-> CHOOSE h \in coll : h.id = id,
          similar |-> Window(ord, 0, SimilarLimit)]

GetHousingById(id) ==
    /\ listing = NoListing
    /\ \E ord \in SimilarOrders(housing, id) :
          listing' = HousingDetailAnswer(housing, id, ord)
    /\ UNCHANGED <<housing, establishments, imports, blobVars, dbVars>>

---------------------------------------------------------------------------
(* searchHousing / searchEstablishments *)

\* The keywords of the search requests (req.params.keyword is never empty).
Keywords ==
    { <<"d", "a", "k">>, <<"t", "h", "i", "e", "s">>, <<"w", "i", "f", "i">>,
      <<"n", "o", "r", "d">>, <<"T", ".", "i">>, <<"u">>, <<"z">> }

\* .limit(20) of both searches, scaled down to the size of the samples.
SearchLimit == 2

\* A search that does not look into the amenities.
HousingSearchMatches_NoTags(h, keyword) ==
    /\ \/ RegexMatch(keyword, h.title)
       \/ RegexMatch(keyword, h.description)
       \/ RegexMatch(keyword, h.location)
       \/ RegexMatch(keyword, h.neighborhood)
    /\ h.isAvailable = TRUE

\* The filter of searchHousing: the keyword as a regular expression in one
\* of five fields, and isAvailable: true.
HousingSearchMatches(h, keyword) ==
    /\ \/ RegexMatch(keyword, h.title)
       \/ RegexMatch(keyword, h.description)
       \/ RegexMatch(keyword, h.location)
       \/ RegexMatch(keyword, h.neighborhood)
       \/ \E a \in h.amenities : RegexMatch(keyword, a)
    /\ h.isAvailable = TRUE

\* The filter of searchEstablishments.
EstablishmentSearchMatches(e, keyword) ==
    \/ RegexMatch(keyword, e.name)
    \/ RegexMatch(keyword, e.description)
    \/ RegexMatch(keyword, e.location)
    \/ \E g \in e.programs : RegexMatch(keyword, g)

\* The answer of a search whose find returned the documents in order ord.
SearchAnswer(op, keyword, ord) ==
    [op |-> op, keyword |-> keyword, status |-> 200, ord |-> ord,
     count |-> Len(Window(ord, 0, SearchLimit)),
     data |-> Window(ord, 0, SearchLimit)]

SearchHousing(keyword) ==
    /\ listing = NoListing
    /\ \E ord \in AnyOrder({ h \in housing : HousingSearchMatches(h, keyword) }) :
          listing' = SearchAnswer("searchHousing", keyword, ord)
    /\ UNCHANGED <<housing, establishments, imports, blobVars, dbVars>>

SearchEstablishments(keyword) ==
    /\ listing = NoListing
    /\ \E ord \in AnyOrder({ e \in establishments : EstablishmentSearchMatches(e, keyword) }) :
          listing' = SearchAnswer("searchEstablishments", keyword, ord)
    /\ UNCHANGED <<housing, establishments, imports, blobVars, dbVars>>

---------------------------------------------------------------------------
(* getHousingStats / getHousingByType / getEstablishmentStats *)

\* The sum of f[x] over the elements x of S.
RECURSIVE SumOf(_, _)
SumOf(S, f) ==
    IF S = {} THEN 0
    ELSE LET x == CHOOSE y \in S : TRUE IN f[x] + SumOf(S \ {x}, f)

\* {$avg: '$price'} over a group of documents: the quotient sum / n, kept as
\* the pair.  The accumulators skip the documents without the field; over
\* none that holds it the average is null (n = 0).
AvgPrice(S) ==
    [sum |-> SumOf(Priced(S), [h \in Priced(S) |-> h.price]), n |-> Cardinality(Priced(S))]

\* {$min: '$price'} and {$max: '$price'} over a group: null (NoPrice) when
\* no document of the group holds the field.
GroupMin(S) == IF Priced(S) = {} THEN NoPrice ELSE SetMin({ h.price : h \in Priced(S) })
GroupMax(S) == IF Priced(S) = {} THEN NoPrice ELSE SetMax({ h.price : h \in Priced(S) })

\* The average the handlers put in for a group that is not there: 0.
ZeroAvg == [sum |-> 0, n |-> 1]

\* The $group of the whole collection, or nothing when it is empty.
TotalGroup(coll) ==
    IF coll = {} THEN <<>>
    ELSE <<[total |-> Cardinality(coll),
            totalAvailable |-> Cardinality({ h \in coll : h.isAvailable }),
            avgPrice |-> AvgPrice(coll),
            minPrice |-> GroupMin(coll),
            maxPrice |-> GroupMax(coll)]>>

\* A summary that answers -1 where there is no price.
TotalStats_NoZero(coll) ==
    IF TotalGroup(coll) # <<>> THEN TotalGroup(coll)[1]
    ELSE [total |-> 0, totalAvailable |-> 0, avgPrice |-> ZeroAvg,
          minPrice |-> -1, maxPrice |-> -1]

\* totalStats[0] || {total: 0, totalAvailable: 0, avgPrice: 0, minPrice: 0,
\* maxPrice: 0}
TotalStats(coll) ==
    IF TotalGroup(coll) # <<>> THEN TotalGroup(coll)[1]
    ELSE [total |-> 0, totalAvailable |-> 0, avgPrice |-> ZeroAvg,
          minPrice |-> 0, maxPrice |-> 0]

\* The groups by type; a $group without a $sort returns them in no
\* particular order, so they are kept as a set.
TypeGroups(coll) ==
    { [_id |-> t,
       count |-> Cardinality({ h \in coll : h.type = t }),
       availableCount |-> Cardinality({ h \in coll : h.type = t /\ h.isAvailable }),
       avgPrice |-> AvgPrice({ h \in coll : h.type = t })] :
        t \in { h.type : h \in coll } }

\* The groups by location of the housing collection.
LocationGroups(coll) ==
    { [_id |-> l,
       count |-> Cardinality({ h \in coll : h.location = l }),
       avgPrice |-> AvgPrice({ h \in coll : h.location = l })] :
        l \in { h.location : h \in coll } }

\* The groups by number of bedrooms.
BedroomGroups(coll) ==
    { [_id |-> b,
       count |-> Cardinality({ h \in coll : h.bedrooms = b }),
       avgPrice |-> AvgPrice({ h \in coll : h.bedrooms = b })] :
        b \in { h.bedrooms : h \in coll } }

\* The groups of {$unwind: '$amenities'}, {$group: {_id: '$amenities'}}.
AmenityGroups(coll) ==
    { [_id |-> a, count |-> Cardinality({ h \in coll : a \in h.amenities })] :
        a \in UNION { h.amenities : h \in coll } }

\* {$limit: 10} of the locations and {$limit: 5} of the amenities.
TopLocations == 10
TopAmenities == 5

\* {$sort: {count: -1}}: the orders the groups may come in, groups of equal
\* count in any order.
ByCount(groups) == Orders(groups, [g \in groups |-> g.count], -1)

\* The answer of getHousingStats, the sorts returning the location groups
\* in order locs and the amenity groups in order ams.
HousingStatsAnswer(coll, locs, ams) ==
    [op |-> "stats", status |-> 200,
     total |-> TotalStats(coll),
     byType |-> TypeGroups(coll),
     byLocation |-> Window(locs, 0, TopLocations),
     byBedrooms |-> CHOOSE o \in Orders(BedroomGroups(coll),
                                         [g \in BedroomGroups(coll) |-> g._id], 1) : TRUE,
     popularAmenities |-> Window(ams, 0, TopAmenities)]

GetHousingStats ==
    /\ listing = NoListing
    /\ \E locs \in ByCount(LocationGroups(housing)), ams \in ByCount(AmenityGroups(housing)) :
          listing' = HousingStatsAnswer(housing, locs, ams)
    /\ UNCHANGED <<housing, establishments, imports, blobVars, dbVars>>

\* validTypes of getHousingByType.
validTypes == {"studio", "colocation", "university", "apartment"}

\* The requests of getHousingByType: a type and a limit.
TypeRequests ==
    { [type |-> t, limit |-> l] :
        t \in {"studio", "university", "apartment", "villa"},
        l \in {Absent, P(<<"1">>), P(<<"x">>)} }

\* Number(limit), 6 when the parameter is absent.
TypeLimit(p) == IF p.limit.present THEN Number(p.limit.text) ELSE Num(6)

\* typeStats[0] || {count: 0, avgPrice: 0, minPrice: 0, maxPrice: 0} of the
\* aggregate {$match: {type}}, {$group: {_id: null, ...}}.
TypeStats(coll, type) ==
    LET scope == { h \in coll : h.type = type } IN
    IF scope = {}
    THEN [count |-> 0, avgPrice |-> ZeroAvg, minPrice |-> 0, maxPrice |-> 0]
    ELSE [count |-> Cardinality(scope), avgPrice |-> AvgPrice(scope),
          minPrice |-> GroupMin(scope),
          maxPrice |-> GroupMax(scope)]

\* Housing.find({type, isAvailable: true}).sort({createdAt: -1})
TypeOrders(coll, type) ==
    LET found == { h \in coll : h.type = type /\ h.isAvailable } IN
    Orders(found, [h \in found |-> h.createdAt], -1)

\* The answer of getHousingByType: 400 for a type outside validTypes, 500
\* when the limit is no number, the available housing of the type and the
\* statistics of the type otherwise.
HousingByTypeAnswer(coll, p, ord) ==
    IF p.type \notin validTypes
    THEN [op |-> "byType", params |-> p, status |-> 400]
    ELSE IF ~IsNum(TypeLimit(p))
    THEN [op |-> "byType", params |-> p, status |-> 500]
    ELSE [op |-> "byType", params |-> p, status |-> 200,
          count |-> Len(Window(ord, 0, TypeLimit(p).v)),
          stats |-> TypeStats(coll, p.type),
          data |-> Window(ord, 0, TypeLimit(p).v)]

GetHousingByType(p) ==
    /\ listing = NoListing
    /\ \E ord \in TypeOrders(housing, p.type) :
          listing' = HousingByTypeAnswer(housing, p, ord)
    /\ UNCHANGED <<housing, establishments, imports, blobVars, dbVars>>

\* The groups by location of the establishments.
PopularLocationGroups(coll) ==
    { [_id |-> l, count |-> Cardinality({ e \in coll : e.location = l })] :
        l \in { e.location : e \in coll } }

\* stats[0] || {totalEstablishments: 0, types: [], ...}: the number of
\* establishments and the count of each type (the averages of studentsCount
\* and rating are of fields the model does not hold).
EstablishmentTotals(coll) ==
    [totalEstablishments |-> Cardinality(coll),
     types |-> { [type |-> t, count |-> Cardinality({ e \in coll : e.type = t })] :
                    t \in { e.type : e \in coll } }]

\* The answer of getEstablishmentStats.
EstablishmentStatsAnswer(coll, locs) ==
    [op |-> "establishmentStats", status |-> 200,
     stats |-> EstablishmentTotals(coll),
     popularLocations |-> Window(locs, 0, TopLocations)]

GetEstablishmentStats ==
    /\ listing = NoListing
    /\ \E locs \in ByCount(PopularLocationGroups(establishments)) :
          listing' = EstablishmentStatsAnswer(establishments, locs)
    /\ UNCHANGED <<housing, establishments, imports, blobVars, dbVars>>

\* The collections hold any of the sample documents, the housing
\* collection also one or two documents without a price next to none, one
\* or three that hold one; the bucket is empty.
CatalogInit ==
    /\ files = {} /\ chunks = {} /\ nextId = 1
    /\ uploads = <<>> /\ deletes = <<>> /\ gets = <<>>
    /\ \/ housing \in SUBSET SampleHousing /\ establishments = SampleEstablishments
       \/ housing = SampleHousing /\ establishments \in SUBSET SampleEstablishments
       \/ /\ \E S \in { {}, { h \in SampleHousing : h.id = 2 },
                         { h \in SampleHousing : h.id <= 3 } } :
                \E U \in (SUBSET UnpricedHousing) \ {{}} : housing = S \cup U
          /\ establishments = SampleEstablishments
    /\ listing = NoListing
    /\ imports = <<>>
    /\ DbConnected

CatalogNext ==
    \/ \E p \in HousingRequests : GetAllHousing(p)
    \/ \E p \in EstablishmentRequests : GetEstablishments(p)
    \/ \E id \in HousingIds : GetHousingById(id)
    \/ \E keyword \in Keywords : SearchHousing(keyword)
    \/ \E keyword \in Keywords : SearchEstablishments(keyword)
    \/ GetHousingStats
    \/ \E p \in TypeRequests : GetHousingByType(p)
    \/ GetEstablishmentStats

CatalogSpec == CatalogInit /\ [][CatalogNext]_vars

---------------------------------------------------------------------------
(* importEstablishmentsBatch *)

\* text.toLowerCase() and text.trim()
RECURSIVE LowerText(_)
LowerText(t) == IF t = <<>> THEN <<>> ELSE <<Lower(Head(t))>> \o LowerText(Tail(t))
Trim(t) == DropTrailingSpaces(DropSpaces(t))

\* type.toLowerCase() for the type words of the model.
LowerWord(w) ==
    IF w = "University" THEN "university"
    ELSE IF w = "SCHOOL" THEN "school"
    ELSE w

\* emailRegex.test(text) for /^[^\s@]+@[^\s@]+\.[^\s@]+$/: one "@" and no
\* white space, something before the "@", and after it a "." with something
\* on both sides.
emailRegex(t) ==
    \E i \in 2..Len(t) :
        /\ t[i] = "@"
        /\ \A k \in 1..Len(t) : k # i => t[k] \notin {"@", " "}
        /\ \E j \in (i + 2)..(Len(t) - 1) : t[j] = "."

\* An item of the batch; an empty text stands for a field that is missing
\* or empty, `email` and `phone` are contact.email and contact.phone.
Item(name, type, location, description, email, phone) ==
    [name |-> name, type |-> type, location |-> location,
     description |-> description, email |-> email, phone |-> phone]

ItemAF     == Item(<<" ", "A", "F">>, "University", Dakar, <<"a", "f">>,
                   <<"A", "@", "s", ".", "n">>, <<"7">>)
ItemAF2    == Item(<<"A", "F", "2">>, "school", Dakar, <<"a", "f">>,
                   <<"a", "@", "s", ".", "n">>, <<"7">>)
ItemAFbis  == Item(<<"A", "F">>, "institute", Thies, <<"a", "f">>,
                   <<"f", "@", "s", ".", "n">>, <<"7">>)
ItemNoName == Item(<<>>, "school", Dakar, <<"x">>, <<"x", "@", "s", ".", "n">>, <<"7">>)
ItemBadEmail == Item(<<"B">>, "school", Dakar, <<"b">>, <<"b", "@", "s">>, <<"7">>)
ItemBadType == Item(<<"C">>, "lycee", Dakar, <<"c">>, <<"c", "@", "s", ".", "n">>, <<"7">>)
ItemNoPhone == Item(<<"P">>, "school", Dakar, <<"p">>, <<"p", "@", "s", ".", "n">>, <<>>)
ItemUCAD   == Item(<<"U", "C", "A", "D">>, "university", Dakar, <<"u">>,
                   <<"d", "@", "s", ".", "n">>, <<"7">>)

\* const MAX_BATCH_SIZE = 100
MAX_BATCH_SIZE == 100

\* The slices of the details: 20 errors, 20 skipped, and the imported ones
\* when they are 10 or fewer.
DetailLimit == 20
ImportedDetailLimit == 10

\* A request body: `items` is an array or not, and req.query.details is
\* 'true' or not (NODE_ENV is not 'development').
Body(isArray, items, details) == [isArray |-> isArray, items |-> items, details |-> details]

\* The bodies of the model: no array, a batch of MAX_BATCH_SIZE + 1 items,
\* an empty batch, and batches that mix the outcomes.
ImportBodies ==
    { Body(FALSE, <<>>, FALSE),
      Body(TRUE, [j \in 1..(MAX_BATCH_SIZE + 1) |-> ItemAF], FALSE),
      Body(TRUE, <<>>, TRUE),
      Body(TRUE, <<ItemNoName, ItemAF, ItemAF2>>, TRUE),
      Body(TRUE, <<ItemAF2, ItemAFbis>>, FALSE),
      Body(TRUE, <<ItemNoPhone, ItemAFbis>>, TRUE),
      Body(TRUE, <<ItemBadEmail, ItemBadType, ItemUCAD>>, TRUE) }

\* The summary of a finished import.
Summary(r) ==
    [total |-> Len(r.items),
     imported |-> Len(r.imported),
     errors |-> Len(r.errors),
     skipped |-> Len(r.skipped),
     errorDetails |-> IF r.details
                      THEN SubSeq(r.errors, 1, Min(Len(r.errors), DetailLimit)) ELSE <<>>,
     skippedDetails |-> IF r.details
                        THEN SubSeq(r.skipped, 1, Min(Len(r.skipped), DetailLimit)) ELSE <<>>,
     importedDetails |-> IF r.details /\ Len(r.imported) <= ImportedDetailLimit
                         THEN r.imported ELSE <<>>]

\* The request after the loop: answered 200 with the summary.
Answer(r) == [r EXCEPT !.pc = "done", !.status = 200, !.summary = Summary(r)]

\* A loop that the first error leaves.
Outcome_AbortOnError(r, kind, entry) ==
    LET r1 == [r EXCEPT ![kind] = Append(@, entry), !.i = @ + 1] IN
    IF r1.i <= Len(r1.items) /\ kind # "errors"
    THEN [r1 EXCEPT !.pc = "lookup"] ELSE Answer(r1)

\* The request after its current item got its outcome: the entry is pushed
\* on results[kind] and the loop goes on with the next item, or the request
\* is answered after the last one.
Outcome(r, kind, entry) ==
    LET r1 == [r EXCEPT ![kind] = Append(@, entry), !.i = @ + 1] IN
    IF r1.i <= Len(r1.items) THEN [r1 EXCEPT !.pc = "lookup"] ELSE Answer(r1)

\* A request arrives: no array and a batch over MAX_BATCH_SIZE are answered
\* 400, an empty batch is answered at once, otherwise the loop begins.
ImportRequest(body) ==
    LET r == [isArray |-> body.isArray, items |-> body.items, details |-> body.details,
              i |-> 1, pc |-> "lookup", status |-> 0,
              imported |-> <<>>, errors |-> <<>>, skipped |-> <<>>, summary |-> <<>>]
    IN
    /\ ReqCount < MaxReqs
    /\ imports' = Append(imports,
          IF ~body.isArray \/ Len(body.items) > MAX_BATCH_SIZE
          THEN [r EXCEPT !.pc = "done", !.status = 400]
          ELSE IF body.items = <<>> THEN Answer(r)
          ELSE r)
    /\ UNCHANGED <<housing, establishments, listing, blobVars, dbVars>>


\* validTypes of the import.
validEstablishmentTypes == {"university", "school", "institute"}

\* Establishment.findOne({$or: [{name: item.name.trim()},
\* {'contact.email': item.contact.email.toLowerCase()}]}) finds a document.
Existing(coll, item) ==
    \E e \in coll : e.name = Trim(item.name) \/ e.email = LowerText(item.email)

\* The _id of a created document: one no document holds.
NewEstablishmentId(coll) ==
    1 + SetMax({ e.id : e \in coll } \cup {Cardinality(SampleEstablishments)})

\* establishmentData of an item (the items of the model carry no programs).
establishmentData(coll, item) ==
    Establishment(NewEstablishmentId(coll), Trim(item.name), item.description,
                  LowerWord(item.type), item.location, {},
                  Trim(LowerText(item.email)), NewEstablishmentId(coll))

\* Establishment.create(data) throws: a required text is empty (name,
\* description, contact.phone), or the unique index on name holds the name.
CreateThrows(coll, data, phone) ==
    \/ data.name = <<>> \/ data.description = <<>> \/ phone = <<>>
    \/ \E e \in coll : e.name = data.name

\* One item of the loop up to the answer of findOne: the checks of the
\* required fields and of the email, the lookup of a duplicate, the check
\* of the type; the item gets its outcome, or Establishment.create is
\* called.
ImportLookup(k) ==
    LET r == imports[k]
        item == r.items[r.i]
    IN
    /\ r.pc = "lookup"
    /\ imports' = [imports EXCEPT ![k] =
          IF item.name = <<>> \/ item.type = "" \/ item.location = <<>>
          THEN Outcome(r, "errors", [line |-> r.i, why |-> "Champs requis manquants"])
          ELSE IF item.email = <<>>
          THEN Outcome(r, "errors", [line |-> r.i, why |-> "Email de contact requis"])
          ELSE IF ~emailRegex(item.email)
          THEN Outcome(r, "errors", [line |-> r.i, why |-> "Format d'email invalide"])
          ELSE IF Existing(establishments, item)
          THEN Outcome(r, "skipped", [line |-> r.i, why |-> "existe deja"])
          ELSE IF LowerWord(item.type) \notin validEstablishmentTypes
          THEN Outcome(r, "errors", [line |-> r.i, why |-> "Type invalide"])
          ELSE [r EXCEPT !.pc = "create"]]
    /\ UNCHANGED <<housing, establishments, listing, blobVars, dbVars>>

\* Establishment.create answers: the document is stored and the item is
\* imported, or the create threw and the catch block of the loop records
\* the error.  History, read by no action: `dup` records whether a stored
\* establishment held the contact email of the document when it was stored.
ImportCreate(k) ==
    LET r == imports[k]
        item == r.items[r.i]
        data == establishmentData(establishments, item)
    IN
    /\ r.pc = "create"
    /\ IF CreateThrows(establishments, data, item.phone)
       THEN /\ establishments' = establishments
            /\ imports' = [imports EXCEPT ![k] =
                  Outcome(r, "errors", [line |-> r.i, why |-> "create"])]
       ELSE /\ establishments' = establishments \cup {data}
            /\ imports' = [imports EXCEPT ![k] =
                  Outcome(r, "imported",
                      [line |-> r.i, id |-> data.id, name |-> data.name,
                       email |-> data.email,
                       dup |-> \E e \in establishments : e.email = data.email])]
    /\ UNCHANGED <<housing, listing, blobVars, dbVars>>

\* The collection holds no establishment or the first sample one; no
\* request has arrived.
ImportInit ==
    /\ files = {} /\ chunks = {} /\ nextId = 1
    /\ uploads = <<>> /\ deletes = <<>> /\ gets = <<>>
    /\ housing = {}
    /\ establishments \in { {}, { e \in SampleEstablishments : e.id = 1 } }
    /\ listing = NoListing
    /\ imports = <<>>
    /\ DbConnected

ImportNext ==
    \/ \E body \in ImportBodies : ImportRequest(body)
    \/ \E k \in 1..Len(imports) : ImportLookup(k)
    \/ \E k \in 1..Len(imports) : ImportCreate(k)

ImportSpec == ImportInit /\ [][ImportNext]_vars

---------------------------------------------------------------------------
(* The server: the image routes and the import route of one process, over *)
(* one database.                                                           *)

\* The bucket and the establishments as BlobInit and ImportInit give them,
\* the housing collection with the sample documents.
ServerInit ==
    /\ BlobInit
    /\ housing = SampleHousing
    /\ establishments \in { {}, { e \in SampleEstablishments : e.id = 1 } }
    /\ listing = NoListing
    /\ imports = <<>>
    /\ DbConnected

ServerNext == BlobNext \/ ImportNext

ServerSpec == ServerInit /\ [][ServerNext]_vars

---------------------------------------------------------------------------
(* Properties of the catalog listings *)

Answered == listing.op \in {"housing", "establishments"}

\* The filter of the answered request is well formed: the query is built
\* without a failed cast.
FilterWellFormed ==
    IF listing.op = "housing"
    THEN ~HousingCastFails(HousingQuery(listing.params))
    ELSE ~EstablishmentCastFails(EstablishmentQuery(listing.params))

\* The answer to the answered request asked again for page k, the
\* collection unchanged and the find returning the same order.
PageAnswer(k) ==
    LET p == [listing.params EXCEPT !.page = P(<<Digits[k + 1]>>)] IN
    IF listing.op = "housing"
    THEN HousingAnswer(housing, p, listing.ord)
    ELSE EstablishmentAnswer(establishments, p, listing.ord)

\* The items of pages 1..k, page after page.
RECURSIVE PagesUpTo(_)
PagesUpTo(k) == IF k <= 0 THEN <<>> ELSE PagesUpTo(k - 1) \o PageAnswer(k).data

\* C7: for a listing query, pages 1..totalPages together hold totalCount
\* items, every item of the filtered set once.
C7_PagesPartition ==
    (Answered /\ FilterWellFormed) =>
        /\ PageAnswer(1).status = 200
        /\ IsNum(PageAnswer(1).totalPages)
        /\ \A k \in 1..PageAnswer(1).totalPages.v : PageAnswer(k).status = 200
        /\ Len(PagesUpTo(PageAnswer(1).totalPages.v)) = PageAnswer(1).total
        /\ PagesUpTo(PageAnswer(1).totalPages.v) = listing.ord

\* C8: a listing query is answered with the size of the filtered set as
\* totalCount and ceil(totalCount / pageSize) as totalPages, and a page
\* beyond totalPages is answered with no item.
C8_TotalsConsistent ==
    (Answered /\ FilterWellFormed) =>
        /\ listing.status = 200
        /\ listing.total = Len(listing.ord)
        /\ IsNum(listing.totalPages)
        /\ LimitNum(listing.params).v >= 1
        /\ listing.totalPages.v * LimitNum(listing.params).v >= listing.total
        /\ (listing.totalPages.v - 1) * LimitNum(listing.params).v < listing.total
        /\ listing.currentPage.v > listing.totalPages.v => listing.data = <<>>

\* C9: whatever page and limit are asked for, the query is not refused and
\* runs with a page number of 1 or more and a page size of 1 or more.
C9_PageSpecClamped ==
    (Answered /\ FilterWellFormed) =>
        /\ listing.status = 200
        /\ IsNum(listing.currentPage) /\ listing.currentPage.v >= 1
        /\ listing.count <= listing.total
        /\ \E size \in 1..(listing.total + 1) :
              listing.data = Window(listing.ord, (listing.currentPage.v - 1) * size, size)

Home100 == Home(1, "studio", Dakar, 100, 1, TRUE, 1)
Home200 == Home(2, "colocation", Dakar, 200, 2, TRUE, 2)
Home300 == Home(3, "university", Thies, 300, 1, FALSE, 3)

\* The request with a price range and nothing else.
PriceRequest(minPrice, maxPrice) ==
    HousingParams(NoWord, Absent, P(minPrice), P(maxPrice), Absent, NoWord,
                  Absent, Absent, NoWord, NoWord)

\* The housing documents the answered request must keep: those the other
\* filters keep whose price is at least the min bound, when there is one,
\* and at most the max bound, when there is one.
ExpectedByPrice ==
    LET p == listing.params
        others == HousingQuery([p EXCEPT !.minPrice = Absent, !.maxPrice = Absent])
    IN { h \in housing :
           /\ HousingMatches(h, others)
           /\ Truthy(p.minPrice) => HasPrice(h) /\ Number(p.minPrice.text).v <= h.price
           /\ Truthy(p.maxPrice) => HasPrice(h) /\ h.price <= Number(p.maxPrice.text).v }

\* C10: a housing listing counts and returns exactly the documents whose
\* price lies within the bounds present, both inclusive; over prices 100,
\* 200, 300 the range 150..250 and the range 200..200 both return the
\* document priced 200 alone.
C10_PriceRange ==
    (listing.op = "housing" /\ listing.status = 200) =>
        /\ { listing.ord[j] : j \in 1..Len(listing.ord) } = ExpectedByPrice
        /\ listing.total = Cardinality(ExpectedByPrice)
        /\ \A j \in 1..Len(listing.data) : listing.data[j] \in ExpectedByPrice
        /\ (/\ housing = {Home100, Home200, Home300}
            /\ listing.params \in { PriceRequest(<<"1", "5", "0">>, <<"2", "5", "0">>),
                                    PriceRequest(<<"2", "0", "0">>, <<"2", "0", "0">>) })
           => listing.data = <<Home200>>

\* The range 200..200 over prices 100, 200, 300 returned the document
\* priced 200.
C10_Witness ==
    /\ housing = {Home100, Home200, Home300}
    /\ listing.op = "housing"
    /\ listing.params = PriceRequest(<<"2", "0", "0">>, <<"2", "0", "0">>)
    /\ listing.status = 200
    /\ listing.data = <<Home200>>

---------------------------------------------------------------------------
(* Properties of the listing filters and of the sort *)

\* A text that writes a number: an optional sign and digits, nothing else.
IsNumeral(t) ==
    /\ Unsigned(t) # <<>>
    /\ \A j \in 1..Len(Unsigned(t)) : IsDigit(Unsigned(t)[j])

\* The numeric filters of a housing request that carry a text which writes
\* no number (a parameter sent empty carries none).
MalformedNumericFilters(p) ==
    { f \in {"minPrice", "maxPrice", "bedrooms"} : Truthy(p[f]) /\ ~IsNumeral(p[f].text) }

\* C11: a housing listing with a numeric filter (minPrice, maxPrice or
\* bedrooms) that is present and writes no number is answered with a
\* validation error, a status of the 4xx class, and with no page.
C11_NonNumericRefused ==
    (listing.op = "housing" /\ MalformedNumericFilters(listing.params) # {}) =>
        listing.status \in 400..499

\* The fields a housing listing may be sorted by.
KnownSortFields == {"createdAt", "price", "bedrooms"}

\* The field the answered request has to be sorted by: the one asked for
\* when the listing knows it, creation time otherwise.
EffectiveSortField(p) ==
    IF SortField(p) \in KnownSortFields THEN SortField(p) ELSE "createdAt"

\* C12: a housing listing with well-formed filters and the default page is
\* answered with a page, whatever sort field is asked for, and the find
\* returned the documents sorted by the field asked for when it is a known
\* field and by creation time when it is not.
C12_SortFallback ==
    (/\ listing.op = "housing"
     /\ MalformedNumericFilters(listing.params) = {}
     /\ ~listing.params.page.present /\ ~listing.params.limit.present) =>
        /\ listing.status = 200
        /\ \A a, b \in 1..Len(listing.ord) : a < b =>
              SortDir(listing.params)
                  * HousingSortKey(EffectiveSortField(listing.params), listing.ord[a])
              <= SortDir(listing.params)
                  * HousingSortKey(EffectiveSortField(listing.params), listing.ord[b])

---------------------------------------------------------------------------
(* Properties of the exclusion *)

\* The establishments the answered request keeps when its exclusion is
\* left out.
MatchingWithoutExclude ==
    { e \in establishments :
        EstablishmentMatches(e, EstablishmentQuery([listing.params EXCEPT !.exclude = NoExclude])) }

\* C13: an establishment listing with an exclusion id is answered as the
\* same request without it, the find returned every establishment the other
\* filters keep but the excluded one, totalCount counts these, and the
\* excluded one is not among the items; the similar housing of a housing
\* detail are documents other than the housing itself.
C13_ExcludedNeverReturned ==
    /\ (/\ listing.op = "establishments"
        /\ listing.params.exclude.present /\ isValid(listing.params.exclude.id)) =>
          /\ listing.status =
                EstablishmentAnswer(establishments,
                    [listing.params EXCEPT !.exclude = NoExclude], listing.ord).status
          /\ { listing.ord[j] : j \in 1..Len(listing.ord) }
                = { e \in MatchingWithoutExclude : e.id # listing.params.exclude.id }
          /\ listing.status = 200 =>
                /\ listing.total = Cardinality({ e \in MatchingWithoutExclude :
                                                  e.id # listing.params.exclude.id })
                /\ \A j \in 1..Len(listing.data) :
                      listing.data[j].id # listing.params.exclude.id
    /\ (listing.op = "detail" /\ listing.status = 200) =>
          \A j \in 1..Len(listing.similar) : listing.similar[j].id # listing.id

\* An establishment that the other filters keep was excluded and the rest
\* returned.
C13_Witness ==
    /\ listing.op = "establishments" /\ listing.status = 200
    /\ listing.params.exclude.present
    /\ \E e \in MatchingWithoutExclude : e.id = listing.params.exclude.id
    /\ listing.data # <<>>
    /\ listing.total = Cardinality(MatchingWithoutExclude) - 1

---------------------------------------------------------------------------
(* Properties of the search *)

\* The texts a search looks into: the title or name, the description, the
\* location fields and the tags of a document.
SearchedTexts(d) ==
    IF listing.op = "searchHousing"
    THEN {d.title, d.description, d.location, d.neighborhood} \cup d.amenities
    ELSE {d.name, d.description, d.location} \cup d.programs

\* The documents of the searched collection that match the keyword in one
\* of these texts.
MatchingKeyword ==
    { d \in IF listing.op = "searchHousing" THEN housing ELSE establishments :
        \E t \in SearchedTexts(d) : RegexMatch(listing.keyword, t) }

\* The matching documents a search is about: for housing the available ones.
MatchingInScope ==
    { d \in MatchingKeyword : listing.op = "searchHousing" => d.isAvailable }

Returned == { listing.data[j] : j \in 1..Len(listing.data) }

---------------------------------------------------------------------------
(* Properties of the statistics and of the facets *)

\* The type of the housing has no document in the collection.
EmptyCategory(type) == type \in validTypes /\ ~\E h \in housing : h.type = type

\* C15: over an empty collection getHousingStats is answered without error
\* with min 0 and max 0 for the price, no group by type and no group by
\* location, and so is the price range of a housing listing; over a type
\* with no housing getHousingByType is answered without error with min 0
\* and max 0 and no item.
C15_EmptyScopeZero ==
    /\ (listing.op = "stats" /\ housing = {}) =>
          /\ listing.status = 200
          /\ listing.total.minPrice = 0 /\ listing.total.maxPrice = 0
          /\ listing.total.total = 0
          /\ listing.byType = {}
          /\ listing.byLocation = <<>>
    /\ (/\ listing.op = "housing" /\ housing = {}
        /\ MalformedNumericFilters(listing.params) = {}
        /\ ~listing.params.page.present /\ ~listing.params.limit.present) =>
          /\ listing.status = 200
          /\ listing.priceRange = [min |-> 0, max |-> 0]
          /\ listing.data = <<>>
    /\ (/\ listing.op = "byType" /\ EmptyCategory(listing.params.type)
        /\ ~listing.params.limit.present) =>
          /\ listing.status = 200
          /\ listing.stats.minPrice = 0 /\ listing.stats.maxPrice = 0
          /\ listing.stats.count = 0
          /\ listing.data = <<>>

\* The statistics were asked for over an empty collection and answered.
C15_Witness ==
    /\ listing.op = "stats" /\ housing = {}
    /\ listing.status = 200
    /\ listing.total.minPrice = 0

\* The characters of the sample locations in the order of their codes.
Alphabet == <<"D", "T", "a", "e", "h", "i", "k", "r", "s">>
CharRank(c) == CHOOSE j \in 1..Len(Alphabet) : Alphabet[j] = c

\* The lexicographic order of two texts.
RECURSIVE LexLeq(_, _)
LexLeq(a, b) ==
    IF a = <<>> THEN TRUE
    ELSE IF b = <<>> THEN FALSE
    ELSE IF Head(a) = Head(b) THEN LexLeq(Tail(a), Tail(b))
    ELSE CharRank(Head(a)) < CharRank(Head(b))

\* The per-location list of the answered statistics and the groups it was
\* taken from.
LocationList ==
    IF listing.op = "stats" THEN listing.byLocation ELSE listing.popularLocations
AllLocationGroups ==
    IF listing.op = "stats" THEN LocationGroups(housing)
    ELSE PopularLocationGroups(establishments)

\* C16: the per-location list of the statistics holds at most TopLocations
\* groups, none with a count below that of a group left out, by descending
\* count and, for equal counts, by the lexicographic order of the location.
C16_TopLocationsOrdered ==
    listing.op \in {"stats", "establishmentStats"} =>
        /\ Len(LocationList) <= TopLocations
        /\ \A j \in 1..Len(LocationList) : LocationList[j] \in AllLocationGroups
        /\ \A j \in 1..Len(LocationList) :
              \A g \in AllLocationGroups \ { LocationList[k] : k \in 1..Len(LocationList) } :
                  LocationList[j].count >= g.count
        /\ \A a, b \in 1..Len(LocationList) : a < b =>
              \/ LocationList[a].count > LocationList[b].count
              \/ /\ LocationList[a].count = LocationList[b].count
                 /\ LexLeq(LocationList[a]._id, LocationList[b]._id)

\* C17: the facets of a housing listing are the types, the locations and
\* the numbers of bedrooms of the documents of the collection, each value
\* some document holds and no other, whatever the filters and the page of
\* the request.
C17_FacetsCurrent ==
    (listing.op = "housing" /\ listing.status = 200) =>
        /\ \A h \in housing :
              /\ h.type \in listing.filters.types
              /\ h.location \in listing.filters.locations
              /\ h.bedrooms \in listing.filters.bedroomOptions
        /\ \A t \in listing.filters.types : \E h \in housing : h.type = t
        /\ \A l \in listing.filters.locations : \E h \in housing : h.location = l
        /\ \A b \in listing.filters.bedroomOptions : \E h \in housing : h.bedrooms = b

\* A listing whose filter keeps no document was answered with the facets of
\* a collection that holds some, one sample document being absent.
C17_Witness ==
    /\ listing.op = "housing" /\ listing.status = 200
    /\ listing.total = 0
    /\ housing # {} /\ housing # SampleHousing
    /\ listing.filters.types = { h.type : h \in housing }
    /\ "studio" \notin listing.filters.types

---------------------------------------------------------------------------
(* Properties of the bulk import *)

ImportIdx == 1..Len(imports)

\* The lines of a list of outcome entries.
Lines(entries) == { entries[j].line : j \in 1..Len(entries) }

\* The items of request r that got their outcome: all of them once it is
\* answered, those before the current one until then.
Settled(r) == 1..(IF r.pc = "done" THEN Len(r.items) ELSE r.i - 1)

C19_NoDuplicateImported ==
    /\ \A k \in ImportIdx :
          /\ Len(imports[k].items) > MAX_BATCH_SIZE =>
                /\ imports[k].pc = "done" /\ imports[k].status = 400
                /\ imports[k].imported = <<>>
          /\ \A j \in 1..Len(imports[k].imported) : ~imports[k].imported[j].dup
    /\ \A e1, e2 \in establishments :
          e1.id # e2.id => e1.name # e2.name /\ e1.email # e2.email

---------------------------------------------------------------------------
(* Properties of the range retrieval *)

\* C20: a retrieval from offset O of a stored blob of length L, with O < L,
\* that ended well piped L - O bytes, the bytes of the input from O on.
C20_RangeTail ==
    \A g \in GetIdx :
        LET q == gets[g] IN
        (q.kind = "image" /\ q.outcome = "ok" /\ q.offset < q.length) =>
            /\ Len(q.bytes) = q.length - q.offset
            /\ \A r \in UploadIdx : \A k \in 1..Len(uploads[r].uploadedImages) :
                  uploads[r].uploadedImages[k].fileId = q.id =>
                     q.bytes = SubSeq(uploads[r].files[k].buffer, q.offset + 1,
                                      Len(uploads[r].files[k].buffer))

---------------------------------------------------------------------------
(* Properties of the concurrency of uploads *)

\* The upload streams in flight: opened, and neither finished nor failed.
\* A request has one stream open at a time (uploadMultipleImages awaits
\* each file before it opens the next).
UploadsInFlight == Cardinality({ r \in UploadIdx : uploads[r].pc = "writing" })

\* C21: the upload streams in flight never exceed a cap: whatever the
\* number of upload requests the server is handling, fewer streams than
\* requests admitted are open at the same moment.
C21_InFlightCapped == \E cap \in 1..(MaxReqs - 1) : UploadsInFlight <= cap

---------------------------------------------------------------------------
(* Properties of the order of a delete *)

\* C22: in every state, the states between the two steps of a delete and
\* those a delete that stopped there leaves for good included, every files
\* document has each of its chunk documents; a delete answered 200 leaves
\* neither the files document nor a chunk of the blob.
C22_VisibleRecordsWhole ==
    /\ \A f \in files :
          \A n \in 0..(NumChunks(f.length) - 1) : HasChunk(f.id, n)
    /\ \A d \in DeleteIdx :
          deletes[d].status = 200 =>
              ~FileExists(deletes[d].id) /\ ChunksOf(deletes[d].id) = {}

\* A delete stopped between its two steps: the files document is gone, the
\* chunks are still there, and another blob is stored.
C22_Witness ==
    \E d \in DeleteIdx :
        /\ deletes[d].pc = "done" /\ deletes[d].fault
        /\ deletes[d].deletedCount = 1
        /\ ~FileExists(deletes[d].id)
        /\ ChunksOf(deletes[d].id) # {}
        /\ files # {}

---------------------------------------------------------------------------
(* Properties of the refused requests *)

\* Request i of a list takes a step: it arrives or its record changes.
StepOf(before, after, i) == i > Len(before) \/ after[i] # before[i]

\* A request is answered with a validation error or a not-found result.
Refused(q) == q.pc = "done" /\ q.status \in {400, 404}

\* C23: a step that answers a request 400 or 404, and every step of a
\* delete whose id is malformed or unknown, of an upload without a file
\* and of an import whose body is no array or is over MAX_BATCH_SIZE,
\* leaves the files, the chunks and the catalog collections as they were.
C23_RefusedLeavesStore ==
    [][ ( \/ \E g \in 1..Len(gets') : StepOf(gets, gets', g) /\ Refused(gets'[g])
          \/ \E d \in 1..Len(deletes') :
                StepOf(deletes, deletes', d)
                /\ (Refused(deletes'[d]) \/ ~deletes'[d].existed)
          \/ \E r \in 1..Len(uploads') :
                StepOf(uploads, uploads', r)
                /\ (Refused(uploads'[r]) \/ uploads'[r].files = <<>>)
          \/ \E k \in 1..Len(imports') :
                StepOf(imports, imports', k)
                /\ (Refused(imports'[k]) \/ ~imports'[k].isArray
                    \/ Len(imports'[k].items) > MAX_BATCH_SIZE) )
        => UNCHANGED <<files, chunks, housing, establishments>> ]_vars

\* An oversized batch was answered 400 and a delete of an unknown id 404,
\* over a bucket and a collection that hold documents.
C23_Witness ==
    /\ \E k \in ImportIdx :
          Len(imports[k].items) > MAX_BATCH_SIZE /\ Refused(imports[k])
    /\ \E d \in DeleteIdx : deletes[d].status = 404
    /\ files # {} /\ chunks # {} /\ establishments # {} /\ housing # {}

---------------------------------------------------------------------------
(* Properties of the price statistics over documents without a price *)

\* The average over the documents of a set that hold a price.
PricedAvg(S) ==
    [sum |-> SumOf(Priced(S), [h \in Priced(S) |-> h.price]), n |-> Cardinality(Priced(S))]

\* The statistics of getHousingStats are those of the documents that hold
\* a price: the minimum, the maximum and the average of the collection and
\* the average of every group by type, location and number of bedrooms.
StatsOverPriced ==
    (listing.op = "stats" /\ Priced(housing) # {}) =>
        /\ listing.status = 200
        /\ listing.total.minPrice = SetMin({ h.price : h \in Priced(housing) })
        /\ listing.total.maxPrice = SetMax({ h.price : h \in Priced(housing) })
        /\ listing.total.avgPrice = PricedAvg(housing)
        /\ \A g \in listing.byType :
              g.avgPrice = PricedAvg({ h \in housing : h.type = g._id })
        /\ \A j \in 1..Len(listing.byLocation) :
              listing.byLocation[j].avgPrice
                 = PricedAvg({ h \in housing : h.location = listing.byLocation[j]._id })
        /\ \A j \in 1..Len(listing.byBedrooms) :
              listing.byBedrooms[j].avgPrice
                 = PricedAvg({ h \in housing : h.bedrooms = listing.byBedrooms[j]._id })

\* The price range of a housing listing is that of the documents that hold
\* a price.
RangeOverPriced ==
    (listing.op = "housing" /\ Priced(housing) # {}) =>
        (listing.status = 200 =>
            /\ listing.priceRange.min = SetMin({ h.price : h \in Priced(housing) })
            /\ listing.priceRange.max = SetMax({ h.price : h \in Priced(housing) }))

\* C24: documents without a price are left out of the price statistics and
\* fail no summary: the minimum and the maximum of the housing listing and
\* of the housing statistics and the averages of the groups are those of
\* the documents that hold a price.
C24_UnpricedLeftOut == StatsOverPriced /\ RangeOverPriced

---------------------------------------------------------------------------
(* Properties of a retrieval whose consumer stops reading *)

\* A step a handler or a stream takes on its own, without a new request, a
\* storage failure or a consumer that goes away.
HandlerStep ==
    \/ \E r \in UploadIdx : UploadWriteChunk(r) \/ UploadFinish(r)
    \/ \E g \in GetIdx : GetStreamInit(g) \/ GetStreamChunk(g)
    \/ \E d \in DeleteIdx : DeleteFilesDoc(d) \/ DeleteChunks(d)

\* C25: a retrieval whose sink closed before the last chunk is torn down
\* and ends as a failure: once no handler has a step left to take, it is
\* done with the outcome "error", having piped fewer chunks than the blob
\* has.
C25_ClosedSinkTornDown ==
    ~ENABLED HandlerStep =>
        \A g \in GetIdx :
            gets[g].kind = "image" =>
                /\ gets[g].pc \in {"done", "unpiped"}
                /\ gets[g].pc = "unpiped" => gets[g].outcome = "error"
                /\ gets[g].outcome = "ok" => gets[g].n = NumChunks(gets[g].length)

---------------------------------------------------------------------------
(* Properties of the responses *)

\* C27: an image request is answered once: a retrieval never sends a
\* second status and body on its response, also when its download stream
\* fails after bytes were piped or a delete of the same id runs beside it,
\* and a request that is done was answered (uploads and deletes set their
\* status once, when they end).
C27_OneResponse ==
    /\ \A g \in GetIdx :
          /\ gets[g].sends <= 1
          /\ gets[g].pc = "done" => gets[g].sends = 1
    /\ \A r \in UploadIdx : uploads[r].pc = "done" <=> uploads[r].status # 0
    /\ \A d \in DeleteIdx : deletes[d].pc = "done" <=> deletes[d].status # 0

---------------------------------------------------------------------------
(* Properties of the database connection *)

\* C28: connectionAttempts never exceeds MAX_CONNECTION_ATTEMPTS, and once
\* it has reached it no connection attempt is in flight or scheduled any
\* more, also after a later 'disconnected' event in production.
C28_AttemptsCapped ==
    /\ connectionAttempts <= MAX_CONNECTION_ATTEMPTS
    /\ connectionAttempts >= MAX_CONNECTION_ATTEMPTS =>
          connecting = 0 /\ retryTimers = 0 /\ reconnectTimers = 0

\* C29: at most one connection attempt is scheduled or in flight: the
\* retry timer, the reconnect timer and the calls of connectDB awaiting
\* mongoose.connect are never two together.
C29_OneRetryChain == connecting + retryTimers + reconnectTimers <= 1

---------------------------------------------------------------------------
(* Properties of concurrent imports *)

\* No two stored establishments share a name.
NamesUnique ==
    \A e1, e2 \in establishments : e1.id # e2.id => e1.name # e2.name

\* No two stored establishments share a contact email.
EmailsUnique ==
    \A e1, e2 \in establishments : e1.id # e2.id => e1.email # e2.email

\* C30: whatever the interleaving of the lookups and the creates of two
\* imports, the collection never holds two establishments with the same
\* name or with the same contact email.
C30_ConcurrentImportsUnique == NamesUnique /\ EmailsUnique

====
